---- MODULE Spec2Model ----
(***************************************************************************)
(* A model of src/src/third.rs: a persistent singly linked list whose      *)
(* nodes are shared through Rc.  The heap holds the Node values together   *)
(* with the strong count of the Rc that owns each of them; List handles    *)
(* and Iter cursors are the client's variables.  List::drop is modelled    *)
(* statement by statement, all other methods as one step.                  *)
(***************************************************************************)
EXTENDS Integers, Sequences, FiniteSets, TLC

MaxNodes == 3
MaxHandles == 3
MaxIters == 2
MaxElem == 2
\* the List and Iter values the client holds at once
MaxLive == 3

Node == 1..MaxNodes
Handle == 1..MaxHandles
IterId == 1..MaxIters
Elem == 1..MaxElem

\* Option::None, for a Link and for an Option<&T>
None == 0
\* what a reader gets from a node that is not allocated any more
Dangling == -1
\* next() calls modelled per iterator: the longest chain and one call past its end
MaxCalls == MaxNodes + 1

VARIABLES
    heap,   \* heap[n]: the Node n (elem, next), where it lives (st) and the strong count of its Rc
    live,   \* live[h]: the List handle h exists and has not begun to be dropped
    head,   \* head[h]: List::head of handle h
    hist,   \* hist[h]: the elements handle h was built from, newest prepend first, a tail undoing the newest
    iter,   \* iter[i]: the Iter i (next), the handle it borrows (src) and what it returned so far (out)
    dpc,    \* position inside List::drop, "idle" outside of it
    dself,  \* the handle List::drop runs on
    cur,    \* the local `head` of List::drop
    node,   \* the local `node` of List::drop: the Node moved out of its Rc
    nest,   \* deepest nesting of Node destructors in the current List::drop
    old,    \* heap and self.head as they were when the last prepend, tail or drop began
    ret     \* the call that completed last and what it returned

vars == <<heap, live, head, hist, iter, dpc, dself, cur, node, nest, old, ret>>

FreeNode == [st |-> "free", elem |-> 0, next |-> None, strong |-> 0]
NoIter == [live |-> FALSE, src |-> 0, next |-> None, out |-> <<>>]
NoOld == [heap |-> [n \in Node |-> FreeNode], head |-> None]
NoRet == [op |-> "none", h |-> 0, r |-> 0, val |-> None]

----------------------------------------------------------------------------
(* Rc and Option *)

Allocated(hp) == {n \in Node : hp[n].st = "rc"}

\* the address Rc::new returns: an unused cell
NewNode == CHOOSE n \in Node : heap[n].st = "free" /\ \A m \in Node : heap[m].st = "free" => n <= m

\* the variable the client binds a returned List to
NewHandle == CHOOSE h \in Handle : ~live[h] /\ \A g \in Handle : ~live[g] => h <= g

\* a clone that copies the pointer and forgets the count
CloneLinkNoCount(hp, l) == hp

\* Option<Rc<Node>>::clone: copies the pointer and increments the strong count
CloneLink(hp, l) == IF l = None THEN hp ELSE [hp EXCEPT ![l].strong = @ + 1]

\* Rc::new(Node { elem, next }) at cell n
RcNew(hp, n, e, nx) == [hp EXCEPT ![n] = [st |-> "rc", elem |-> e, next |-> nx, strong |-> 1]]

\* a try_unwrap that hands out the Node whatever the count is
CanUnwrapAlways(hp, l) == TRUE

\* Rc::try_unwrap succeeds only for the last strong reference
CanUnwrap(hp, l) == hp[l].strong = 1

\* a release that forgets the reference instead of dropping it
ReleaseLinkLeak(hp, l, fuel) == [heap |-> hp, nest |-> 0]

\* Drop of an Option<Rc<Node>>: decrements the strong count; at zero the Node
\* is destroyed, which drops its own next from inside of it.  nest counts the
\* Node destructors that are active at once.
RECURSIVE ReleaseLink(_, _, _)
ReleaseLink(hp, l, fuel) ==
    IF l = None \/ fuel = 0 THEN [heap |-> hp, nest |-> 0]
    ELSE IF hp[l].strong > 1 THEN [heap |-> [hp EXCEPT ![l].strong = @ - 1], nest |-> 0]
    ELSE LET r == ReleaseLink([hp EXCEPT ![l] = FreeNode], hp[l].next, fuel - 1)
         IN  [heap |-> r.heap, nest |-> r.nest + 1]

\* a Node value that is forgotten instead of destroyed
DropNodeValueForget(hp, n) == [heap |-> hp, nest |-> 0]

\* Drop of a Node value that is owned directly (moved out of its Rc)
DropNodeValue(hp, n) ==
    LET r == ReleaseLink([hp EXCEPT ![n] = FreeNode], hp[n].next, MaxNodes)
    IN  [heap |-> r.heap, nest |-> r.nest + 1]

\* the elements a reader sees from link l on: elem of each node, following next
RECURSIVE Walk(_, _, _)
Walk(hp, l, fuel) ==
    IF l = None THEN <<>>
    ELSE IF fuel = 0 \/ hp[l].st # "rc" THEN <<Dangling>>
    ELSE <<hp[l].elem>> \o Walk(hp, hp[l].next, fuel - 1)

Elems(hp, l) == Walk(hp, l, MaxNodes + 1)

\* the nodes of the chain that starts at link l
RECURSIVE Chain(_, _, _)
Chain(hp, l, fuel) ==
    IF l = None \/ fuel = 0 THEN <<>>
    ELSE <<l>> \o Chain(hp, hp[l].next, fuel - 1)

ChainOf(hp, l) == Chain(hp, l, MaxNodes + 1)

SeqSet(s) == {s[k] : k \in DOMAIN s}

\* the nodes reachable from the heads of the live handles
Reachable == UNION {SeqSet(ChainOf(heap, head[h])) : h \in {g \in Handle : live[g]}}

Idle == dpc = "idle"

LiveHandles == {h \in Handle : live[h]}
LiveIters == {i \in IterId : iter[i].live}

\* the client has room for one more List or Iter value
Room == Cardinality(LiveHandles) + Cardinality(LiveIters) < MaxLive

----------------------------------------------------------------------------
Init ==
    /\ heap = [n \in Node |-> FreeNode]
    /\ live = [h \in Handle |-> FALSE]
    /\ head = [h \in Handle |-> None]
    /\ hist = [h \in Handle |-> <<>>]
    /\ iter = [i \in IterId |-> NoIter]
    /\ dpc = "idle"
    /\ dself = 0
    /\ cur = None
    /\ node = None
    /\ nest = 0
    /\ old = NoOld
    /\ ret = NoRet

\* what every call outside of List::drop leaves of the last drop's locals
NoDrop == dpc' = "idle" /\ dself' = 0 /\ cur' = None /\ node' = None /\ nest' = 0 /\ old' = NoOld

\* the same for a call that builds a List from the receiver's head l
Called(l) ==
    /\ dpc' = "idle" /\ dself' = 0 /\ cur' = None /\ node' = None /\ nest' = 0
    /\ old' = [heap |-> heap, head |-> l]

\* List::new
ListNew ==
    /\ Idle
    /\ \E h \in Handle : ~live[h]
    /\ Room
    /\ LET b == NewHandle IN
        /\ live' = [live EXCEPT ![b] = TRUE]
        /\ head' = [head EXCEPT ![b] = None]
        /\ hist' = [hist EXCEPT ![b] = <<>>]
        /\ ret' = [op |-> "new", h |-> 0, r |-> b, val |-> None]
    /\ NoDrop
    /\ UNCHANGED <<heap, iter>>


\* a prepend whose new node links to itself
PrependNextSelf(a) == NewNode

\* the link List::prepend stores in the new node: self.head.clone()
PrependNext(a) == head[a]

\* a prepend that pushes onto its receiver as well
PrependHeadsInPlace(a, b, n) == [head EXCEPT ![b] = n, ![a] = n]

\* List { head: Some(Rc::new(..)) }: the new node heads the returned List b,
\* the receiver is behind &self and keeps its head
PrependHeads(a, b, n) == [head EXCEPT ![b] = n]

\* List::prepend
ListPrepend(a, x) ==
    /\ Idle
    /\ live[a]
    /\ \E h \in Handle : ~live[h]
    /\ Room
    /\ \E n \in Node : heap[n].st = "free"
    /\ LET b == NewHandle
           n == NewNode
           nx == PrependNext(a)
       IN
        /\ heap' = RcNew(CloneLink(heap, nx), n, x, nx)
        /\ live' = [live EXCEPT ![b] = TRUE]
        /\ head' = PrependHeads(a, b, n)
        /\ hist' = [hist EXCEPT ![b] = <<x>> \o hist[a]]
        /\ ret' = [op |-> "prepend", h |-> a, r |-> b, val |-> x]
    /\ Called(head[a])
    /\ UNCHANGED iter

\* a tail that returns the list itself
TailLinkSelf(hp, l) == l

\* self.head.as_ref().and_then(|rc_node| rc_node.next.clone()), before the clone
TailLink(hp, l) == IF l = None THEN None ELSE hp[l].next

\* List::tail
ListTail(a) ==
    /\ Idle
    /\ live[a]
    /\ \E h \in Handle : ~live[h]
    /\ Room
    /\ LET b == NewHandle
           t == TailLink(heap, head[a])
       IN
        /\ heap' = CloneLink(heap, t)
        /\ live' = [live EXCEPT ![b] = TRUE]
        /\ head' = [head EXCEPT ![b] = t]
        /\ hist' = [hist EXCEPT ![b] = IF hist[a] = <<>> THEN <<>> ELSE Tail(hist[a])]
        /\ ret' = [op |-> "tail", h |-> a, r |-> b, val |-> None]
    /\ Called(head[a])
    /\ UNCHANGED iter

\* a read that clones the Rc it reads through and keeps the clone
AsRefClone(hp, l) == IF l = None THEN hp ELSE [hp EXCEPT ![l].strong = @ + 1]

\* Option::as_ref / Option::as_deref: a borrow of the link, no Rc is cloned
AsRef(hp, l) == hp

\* a head that reads the node after the first one
HeadElemOfNext(hp, l) ==
    IF l = None \/ hp[l].next = None THEN None ELSE hp[hp[l].next].elem

\* self.head.as_ref().map(|rc_node| &rc_node.elem)
HeadElem(hp, l) == IF l = None THEN None ELSE IF hp[l].st # "rc" THEN Dangling ELSE hp[l].elem

\* List::head
ListHead(a) ==
    /\ Idle
    /\ live[a]
    /\ ret' = [op |-> "head", h |-> a, r |-> 0, val |-> HeadElem(heap, head[a])]
    /\ heap' = AsRef(heap, head[a])
    /\ NoDrop
    /\ UNCHANGED <<live, head, hist, iter>>

\* an iter() that resumes where an earlier iterator over the same list stands
IterStartResume(a) ==
    IF \E j \in IterId : iter[j].live /\ iter[j].src = a
    THEN iter[CHOOSE j \in IterId : iter[j].live /\ iter[j].src = a].next
    ELSE head[a]

\* Iter { next: self.head.as_deref() }
IterStart(a) == head[a]

\* List::iter: the cursor starts at self.head.as_deref()
ListIter(a, i) ==
    /\ Idle
    /\ live[a]
    /\ ~iter[i].live
    /\ \A j \in IterId : ~iter[j].live => i <= j
    /\ Room
    /\ iter' = [iter EXCEPT ![i] = [live |-> TRUE, src |-> a, next |-> IterStart(a), out |-> <<>>]]
    /\ ret' = [op |-> "iter", h |-> a, r |-> i, val |-> None]
    /\ heap' = AsRef(heap, head[a])
    /\ NoDrop
    /\ UNCHANGED <<live, head, hist>>

\* a next() that leaves the cursor where it is
IterAdvanceStay(hp, c) == c

\* the cursor after one next(): node.next.as_deref()
IterAdvance(hp, c) == IF c = None THEN None ELSE hp[c].next

\* Iter::next
IterNext(i) ==
    /\ Idle
    /\ iter[i].live
    /\ Len(iter[i].out) < MaxCalls
    /\ LET c == iter[i].next
           v == HeadElem(heap, c)
       IN
        /\ iter' = [iter EXCEPT ![i].next = IterAdvance(heap, c), ![i].out = Append(@, v)]
        /\ ret' = [op |-> "next", h |-> iter[i].src, r |-> i, val |-> v]
        /\ heap' = AsRef(heap, IterAdvance(heap, c))
    /\ NoDrop
    /\ UNCHANGED <<live, head, hist>>

\* the Iter goes out of scope, which ends its borrow of the list
IterDrop(i) ==
    /\ Idle
    /\ iter[i].live
    /\ iter' = [iter EXCEPT ![i] = NoIter]
    /\ ret' = [op |-> "iterdrop", h |-> 0, r |-> i, val |-> None]
    /\ NoDrop
    /\ UNCHANGED <<heap, live, head, hist>>

----------------------------------------------------------------------------
(* List::drop, one statement per step *)

\* a read of an Option that leaves the link where it was
TakeLeftInPlace(l) == l

\* Option::take: what is left behind in self.head and in node.next
TakeLeft(l) == None

\* let mut head = self.head.take();
\* the borrow checker lets a List be dropped only when no Iter borrows it
DropTake(h) ==
    /\ Idle
    /\ live[h]
    /\ \A i \in IterId : iter[i].live => iter[i].src # h
    /\ dpc' = "loop"
    /\ dself' = h
    /\ cur' = head[h]
    /\ head' = [head EXCEPT ![h] = TakeLeft(@)]
    /\ live' = [live EXCEPT ![h] = FALSE]
    /\ hist' = [hist EXCEPT ![h] = <<>>]
    /\ old' = [heap |-> heap, head |-> head[h]]
    /\ nest' = 0
    /\ node' = None
    /\ ret' = NoRet
    /\ UNCHANGED <<heap, iter>>

\* while let Some(node) = head: the loop ends when head is None
DropLoopEnd ==
    /\ dpc = "loop"
    /\ cur = None
    /\ dpc' = "glue"
    /\ UNCHANGED <<heap, live, head, hist, iter, dself, cur, node, nest, old, ret>>

\* if let Ok(mut node) = Rc::try_unwrap(node): the Node is moved out of its Rc
DropUnwrapOk ==
    /\ dpc = "loop"
    /\ cur # None
    /\ CanUnwrap(heap, cur)
    /\ heap' = [heap EXCEPT ![cur].st = "owned", ![cur].strong = @ - 1]
    /\ node' = cur
    /\ cur' = None
    /\ dpc' = "unwrapped"
    /\ UNCHANGED <<live, head, hist, iter, dself, nest, old, ret>>

\* else { break; }: the Rc comes back in Err and is dropped, the loop ends
DropUnwrapErr ==
    /\ dpc = "loop"
    /\ cur # None
    /\ ~CanUnwrap(heap, cur)
    /\ LET r == ReleaseLink(heap, cur, MaxNodes) IN
        /\ heap' = r.heap
        /\ nest' = IF r.nest > nest THEN r.nest ELSE nest
    /\ cur' = None
    /\ dpc' = "glue"
    /\ ret' = [ret EXCEPT !.val = cur]
    /\ UNCHANGED <<live, head, hist, iter, dself, node, old>>

\* head = node.next.take();
DropTakeNext ==
    /\ dpc = "unwrapped"
    /\ cur' = heap[node].next
    /\ heap' = [heap EXCEPT ![node].next = TakeLeft(@)]
    /\ dpc' = "taken"
    /\ UNCHANGED <<live, head, hist, iter, dself, node, nest, old, ret>>

\* the end of the if-let block: node goes out of scope and is destroyed
DropNode ==
    /\ dpc = "taken"
    /\ LET r == DropNodeValue(heap, node) IN
        /\ heap' = r.heap
        /\ nest' = IF r.nest > nest THEN r.nest ELSE nest
    /\ node' = None
    /\ dpc' = "loop"
    /\ UNCHANGED <<live, head, hist, iter, dself, cur, old, ret>>

\* the end of drop: the field self.head is destroyed in turn
DropEnd ==
    /\ dpc = "glue"
    /\ LET r == ReleaseLink(heap, head[dself], MaxNodes) IN
        /\ heap' = r.heap
        /\ nest' = IF r.nest > nest THEN r.nest ELSE nest
    /\ dpc' = "idle"
    /\ ret' = [ret EXCEPT !.op = "drop", !.h = dself]
    /\ UNCHANGED <<live, head, hist, iter, dself, cur, node, old>>

\* one statement of a running List::drop
DropStep ==
    \/ DropLoopEnd
    \/ DropUnwrapOk
    \/ DropUnwrapErr
    \/ DropTakeNext
    \/ DropNode
    \/ DropEnd

Next ==
    \/ ListNew
    \/ \E a \in Handle, x \in Elem : ListPrepend(a, x)
    \/ \E a \in Handle : ListTail(a)
    \/ \E a \in Handle : ListHead(a)
    \/ \E a \in Handle, i \in IterId : ListIter(a, i)
    \/ \E i \in IterId : IterNext(i)
    \/ \E i \in IterId : IterDrop(i)
    \/ \E h \in Handle : DropTake(h)
    \/ DropLoopEnd
    \/ DropUnwrapOk
    \/ DropUnwrapErr
    \/ DropTakeNext
    \/ DropNode
    \/ DropEnd

Spec == Init /\ [][Next]_vars

\* a destructor that has been entered keeps executing its statements
FairSpec == Spec /\ WF_vars(DropStep)

----------------------------------------------------------------------------
(* Properties *)

\* what head() returns for a list that holds the elements es, newest first
FirstOf(es) == IF es = <<>> THEN None ELSE es[1]

\* C1: head() of a list returns the element of the most recent prepend it was
\* built from, and none for a list built from no prepend (new()).
C1_HeadIsNewestPrepend ==
    ret.op = "head" => ret.val = FirstOf(hist[ret.h])

\* C1 witness: head() returned the newest of two different prepended elements
C1_Witness ==
    /\ ret.op = "head"
    /\ Len(hist[ret.h]) >= 2
    /\ hist[ret.h][1] # hist[ret.h][2]
    /\ ret.val = hist[ret.h][1]

\* C2: tail() undoes the newest prepend: the list it returns holds exactly the
\* elements its receiver held before its newest prepend, and the tail of an
\* empty list is an empty list whose head() is none.
C2_TailUndoesPrepend ==
    ret.op = "tail" =>
        /\ Elems(heap, head[ret.r]) = hist[ret.r]
        /\ hist[ret.h] = <<>> => (head[ret.r] = None /\ HeadElem(heap, head[ret.r]) = None)
        /\ hist[ret.h] # <<>> => Elems(heap, head[ret.h]) = <<hist[ret.h][1]>> \o Elems(heap, head[ret.r])

\* C2 witness: tail() of a list of two or more elements
C2_Witness ==
    /\ ret.op = "tail"
    /\ live[ret.h] /\ live[ret.r]
    /\ Len(hist[ret.h]) >= 2
    /\ Elems(heap, head[ret.r]) = Tail(hist[ret.h])

\* C3: a step of prepend leaves its receiver alive, with the head node and the
\* element sequence it had before the call.
C3_PrependKeepsReceiver ==
    [][ret'.op = "prepend" =>
            /\ live'[ret'.h]
            /\ head'[ret'.h] = head[ret'.h]
            /\ Elems(heap', head'[ret'.h]) = Elems(heap, head[ret'.h])]_vars

\* C3 witness: prepend was called on a non-empty list, which is still there
C3_Witness ==
    /\ ret.op = "prepend"
    /\ live[ret.h]
    /\ head[ret.h] # None
    /\ heap[head[ret.r]].next = head[ret.h]

\* C4: all through the destruction of a handle, every other live handle shows
\* the element sequence it showed when the destruction began.
C4_SharingInvisible ==
    (dself # 0) =>
        \A h \in LiveHandles : Elems(heap, head[h]) = Elems(old.heap, head[h])

\* C4 witness: a destruction that freed a node and stopped at a node it shares
\* with a live handle, which still shows its elements
C4_Witness ==
    /\ Idle /\ ret.op = "drop"
    /\ ret.val # None
    /\ old.head # ret.val
    /\ \E h \in LiveHandles :
        /\ ret.val \in SeqSet(ChainOf(heap, head[h]))
        /\ Elems(heap, head[h]) = hist[h]

\* the number of leading nodes of chain ch that hp holds with strong count 1
RECURSIVE OwnedPrefix(_, _)
OwnedPrefix(hp, ch) ==
    IF ch = <<>> \/ hp[ch[1]].strong # 1 THEN 0 ELSE 1 + OwnedPrefix(hp, Tail(ch))

\* C5: the destruction of a handle frees exactly the leading nodes of its
\* chain that have strong count 1; the first node with a higher count loses
\* one count (the reference that reached it) and stays as it was otherwise,
\* and every other node is exactly as before.
C5_FreesOwnedPrefixOnly ==
    (Idle /\ ret.op = "drop") =>
        LET ch == ChainOf(old.heap, old.head)
            k == OwnedPrefix(old.heap, ch)
        IN  \A n \in Node :
                IF \E j \in 1..k : ch[j] = n
                THEN heap[n].st = "free"
                ELSE IF k < Len(ch) /\ ch[k + 1] = n
                THEN heap[n] = [old.heap[n] EXCEPT !.strong = @ - 1] /\ heap[n].st = "rc"
                ELSE heap[n] = old.heap[n]

\* C5 witness: a destroyed chain with an owned prefix and a shared suffix
C5_Witness ==
    /\ Idle /\ ret.op = "drop"
    /\ LET ch == ChainOf(old.heap, old.head)
           k == OwnedPrefix(old.heap, ch)
       IN  /\ k >= 1
           /\ k < Len(ch)
           /\ heap[ch[1]].st = "free"
           /\ heap[ch[k + 1]].st = "rc"
           /\ \E h \in LiveHandles : Elems(heap, head[h]) # <<>>

\* C6: the k-th next() of an iterator returns the k-th element of its list,
\* newest prepend first, and none once the list's elements are used up.
C6_IterYieldsElements ==
    \A i \in IterId : iter[i].live =>
        \A k \in 1..Len(iter[i].out) :
            iter[i].out[k] = IF k <= Len(hist[iter[i].src]) THEN hist[iter[i].src][k] ELSE None

\* C6 witness: an iterator that returned two different elements and then none
C6_Witness ==
    \E i \in IterId :
        /\ iter[i].live
        /\ Len(hist[iter[i].src]) >= 2
        /\ Len(iter[i].out) = Len(hist[iter[i].src]) + 1
        /\ iter[i].out[1] # iter[i].out[2]
        /\ ret.op = "next" /\ ret.val = None

\* C7: every node reachable from the head of a live handle is allocated, and
\* a node that is not held by its Rc any more has a strong count of zero.
C7_NoUseAfterFree ==
    /\ Reachable \subseteq Allocated(heap)
    /\ \A n \in Node : heap[n].st # "rc" => heap[n].strong = 0
    /\ \A n \in Node : heap[n].st = "rc" => heap[n].strong >= 1

\* C7 witness: in the middle of a destruction, one node is gone and the next
\* one is still reachable from a live handle
C7_Witness ==
    /\ dpc = "loop"
    /\ old.head # None
    /\ heap[old.head].st = "free"
    /\ cur \in Reachable

\* C8: between operations the allocated nodes are exactly the nodes reachable
\* from live handles; with no live handle left, no node is allocated.
C8_NoLeak ==
    Idle =>
        /\ Allocated(heap) = Reachable
        /\ \A n \in Node : heap[n].st \in {"rc", "free"}
        /\ (LiveHandles = {} => \A n \in Node : heap[n] = FreeNode)

\* C8 witness: the last handle was destroyed, of a chain of two nodes or more
C8_Witness ==
    /\ Idle /\ ret.op = "drop"
    /\ LiveHandles = {}
    /\ Len(ChainOf(old.heap, old.head)) >= 2
    /\ Allocated(heap) = {}

\* C9: a node is deallocated only after it was moved out of its Rc and its
\* next was taken, so that no Node destructor runs inside another one.
C9_IterativeTeardown ==
    /\ [](nest <= 1)
    /\ [][\A n \in Node : (heap[n].st # "free" /\ heap'[n].st = "free") =>
            (heap[n].st = "owned" /\ heap[n].next = None)]_vars

\* C9 witness: a destruction that deallocated a chain of three nodes
C9_Witness ==
    /\ Idle /\ ret.op = "drop"
    /\ nest = 1
    /\ Len(ChainOf(old.heap, old.head)) >= 3
    /\ \A n \in SeqSet(ChainOf(old.heap, old.head)) : heap[n].st = "free"

\* C10 as stated: no step changes the elem or the next of a node that exists
\* before and after it.
C10_Original ==
    [][\A n \in Node : (heap[n].st # "free" /\ heap'[n].st # "free") =>
            (heap'[n].elem = heap[n].elem /\ heap'[n].next = heap[n].next)]_vars

\* C10 amended: no step changes the elem or the next of a node that a live
\* handle reaches; the one mutation of a node is List::drop taking the next
\* out of a node it has moved out of its Rc, which nothing references.
C10_SharedNodesImmutable ==
    [][\A n \in Node :
            /\ (n \in Reachable /\ n \in Reachable') =>
                    (heap'[n].elem = heap[n].elem /\ heap'[n].next = heap[n].next)
            /\ (heap[n].st = "rc" /\ heap'[n].st = "rc") =>
                    (heap'[n].elem = heap[n].elem /\ heap'[n].next = heap[n].next)
            /\ (heap[n].st = "owned" /\ heap'[n].st = "owned") =>
                    (heap'[n].elem = heap[n].elem /\ heap'[n].next = None /\ n \notin Reachable)]_vars

\* C10 witness: List::drop took a next out of the node it owns, while a live
\* handle holds other nodes
C10_Witness ==
    /\ dpc = "taken"
    /\ cur # None
    /\ heap[node].next = None
    /\ Reachable # {}


\* C11: no call ends in an error: every value returned is defined, every
\* reference List::drop follows is to a node that exists, a running drop can
\* always take its next step, head() of an empty list returns none, and a
\* failed try_unwrap only ends the loop of the drop.
C11_NoOperationFails ==
    /\ ret.val # Dangling
    /\ \A i \in LiveIters : \A k \in 1..Len(iter[i].out) : iter[i].out[k] # Dangling
    /\ dpc \in {"idle", "loop", "unwrapped", "taken", "glue"}
    /\ (dpc = "loop" /\ cur # None) => heap[cur].st = "rc"
    /\ (dpc \in {"unwrapped", "taken"}) => (node # None /\ heap[node].st = "owned")
    /\ ~Idle => ENABLED DropStep
    /\ (ret.op = "head" /\ head[ret.h] = None) => ret.val = None
    /\ (ret.op = "none" /\ ret.val # None) => (dpc = "glue" /\ heap[ret.val].st = "rc")

\* C11 witness: a try_unwrap of a shared node has failed and ended the loop
C11_Witness ==
    /\ dpc = "glue"
    /\ ret.op = "none"
    /\ ret.val # None
    /\ heap[ret.val].st = "rc"
    /\ heap[ret.val].strong >= 1


\* C12: the next links from any node that exists reach none without passing a
\* node twice and without leaving the nodes that exist; the node a prepend
\* creates links to the receiver's head, whose chain it is not part of.
C12_StrictChain ==
    /\ \A n \in Node : heap[n].st # "free" =>
        LET ch == ChainOf(heap, n) IN
            /\ Len(ch) <= MaxNodes
            /\ Cardinality(SeqSet(ch)) = Len(ch)
            /\ \A k \in 2..Len(ch) : heap[ch[k]].st = "rc"
    /\ ret.op = "prepend" =>
        /\ heap[head[ret.r]].next = head[ret.h]
        /\ head[ret.r] \notin SeqSet(ChainOf(heap, head[ret.h]))

\* C12 witness: a prepend has made a chain of three nodes
C12_Witness ==
    /\ ret.op = "prepend"
    /\ Len(ChainOf(heap, head[ret.r])) = 3
    /\ Cardinality(SeqSet(ChainOf(heap, head[ret.r]))) = 3


\* the owners of node n: the live handles it heads and the allocated nodes it follows
Owners(n) ==
    Cardinality({h \in LiveHandles : head[h] = n}) +
    Cardinality({m \in Allocated(heap) : heap[m].next = n})

\* C13: between operations the strong count of every allocated node is the
\* number of live handles whose head it is plus the number of allocated nodes
\* whose next it is, and it is at least 1.
C13_CountsAccurate ==
    Idle => \A n \in Allocated(heap) : heap[n].strong = Owners(n) /\ heap[n].strong >= 1

\* C13 witness: a node with three owners, handles and a node among them
C13_Witness ==
    /\ Idle
    /\ \E n \in Allocated(heap) :
        /\ heap[n].strong = 3
        /\ \E h \in LiveHandles : head[h] = n
        /\ \E m \in Allocated(heap) : heap[m].next = n


\* C14: prepend allocates exactly one node, with strong count 1, the given
\* element and the receiver's head as its next; the receiver's head node, if
\* any, gains one count, and every other node is as it was.
C14_PrependFrame ==
    ret.op = "prepend" =>
        LET n == head[ret.r]
            a0 == old.head
        IN  /\ head[ret.h] = a0
            /\ old.heap[n].st = "free"
            /\ Allocated(heap) = Allocated(old.heap) \cup {n}
            /\ heap[n] = [st |-> "rc", elem |-> ret.val, next |-> a0, strong |-> 1]
            /\ \A m \in Node \ {n} :
                heap[m] = IF m = a0 THEN [old.heap[m] EXCEPT !.strong = @ + 1] ELSE old.heap[m]

\* C14 witness: a prepend onto a non-empty list that another node links to
C14_Witness ==
    /\ ret.op = "prepend"
    /\ old.head # None
    /\ old.heap[old.head].strong = 2
    /\ heap[old.head].strong = 3
    /\ heap[head[ret.r]].strong = 1

\* C15: tail allocates nothing; the head of the list it returns is the next
\* of the receiver's head node, which gains one count if it exists; the
\* receiver and every other node are as they were, and the tail of an empty
\* or one-node list is empty and changes no count.
C15_TailFrame ==
    ret.op = "tail" =>
        LET t == head[ret.r]
            a0 == old.head
        IN  /\ head[ret.h] = a0
            /\ t = IF a0 = None THEN None ELSE old.heap[a0].next
            /\ Allocated(heap) = Allocated(old.heap)
            /\ \A m \in Node :
                heap[m] = IF m = t THEN [old.heap[m] EXCEPT !.strong = @ + 1] ELSE old.heap[m]
            /\ t = None => heap = old.heap

\* C15 witness: a tail of a list of two nodes or more
C15_Witness ==
    /\ ret.op = "tail"
    /\ head[ret.r] # None
    /\ head[ret.r] = heap[head[ret.h]].next
    /\ heap[head[ret.r]].strong = old.heap[head[ret.r]].strong + 1
    /\ heap[head[ret.h]].strong = old.heap[head[ret.h]].strong


\* C16: a step of head(), iter() or next() changes no node, no strong count,
\* no handle and no other iterator; head() changes no iterator at all, and
\* next() changes only the cursor of the iterator it is called on.
C16_ReadsArePure ==
    [][ret'.op \in {"head", "iter", "next"} =>
            /\ heap' = heap
            /\ head' = head
            /\ live' = live
            /\ \A j \in IterId : j # ret'.r => iter'[j] = iter[j]
            /\ ret'.op = "head" => iter' = iter
            /\ ret'.op = "next" =>
                (iter'[ret'.r].live /\ iter'[ret'.r].src = iter[ret'.r].src)]_vars

\* C16 witness: next() returned the element of a node and moved on to a node
\* that two owners share
C16_Witness ==
    /\ ret.op = "next"
    /\ ret.val # None
    /\ iter[ret.r].next # None
    /\ heap[iter[ret.r].next].strong = 2


\* the cursor that k calls of next() lead to from the link l
RECURSIVE CursorAfter(_, _, _)
CursorAfter(hp, l, k) == IF k = 0 THEN l ELSE CursorAfter(hp, IterAdvance(hp, l), k - 1)

\* C17: iter() returns a cursor at the head of its list with nothing yielded
\* yet, however far other iterators over that list have advanced; and the
\* position and remaining output of every live iterator are those reached from
\* the head of its list by its own next() calls alone.
C17_ItersIndependent ==
    /\ ret.op = "iter" =>
        /\ iter[ret.r].live
        /\ iter[ret.r].src = ret.h
        /\ iter[ret.r].next = head[ret.h]
        /\ iter[ret.r].out = <<>>
    /\ \A i \in IterId : iter[i].live =>
        LET k == Len(iter[i].out)
            all == Elems(heap, head[iter[i].src])
        IN
        /\ iter[i].next = CursorAfter(heap, head[iter[i].src], k)
        /\ Elems(heap, iter[i].next) =
             IF k >= Len(all) THEN <<>> ELSE SubSeq(all, k + 1, Len(all))

\* C17 witness: iter() was called on a non-empty list while another iterator
\* over the same list had already advanced
C17_Witness ==
    /\ ret.op = "iter"
    /\ head[ret.h] # None
    /\ \E j \in IterId :
        /\ j # ret.r
        /\ iter[j].live
        /\ iter[j].src = ret.h
        /\ Len(iter[j].out) >= 1
        /\ iter[j].next # iter[ret.r].next


\* the nodes that the running or last destructor has moved out of their Rc
Reclaimed == {m \in Node : old.heap[m].st = "rc" /\ heap[m].st # "rc"}

\* C18: a destructor that has taken the head of a chain of n nodes reaches
\* its end; on the way it reclaims at most n nodes, all of that chain, runs no
\* further iteration after a failed reclaim, and the head of the destroyed
\* handle is none from the first statement on; without a failed reclaim it
\* reclaims exactly the n nodes.
C18_TeardownTerminates ==
    /\ [](dself # 0 =>
            LET c == ChainOf(old.heap, old.head) IN
            /\ head[dself] = None
            /\ Reclaimed \subseteq SeqSet(c)
            /\ Cardinality(Reclaimed) <= Len(c)
            /\ (ret.val # None => dpc \in {"glue", "idle"})
            /\ (dpc = "idle" /\ ret.val = None => Cardinality(Reclaimed) = Len(c)))
    /\ (dpc = "loop") ~> (dpc = "idle" /\ ret.op = "drop" /\ head[dself] = None)

\* C18 witness: a destructor has ended after two successful reclaims and one
\* failed reclaim
C18_Witness ==
    /\ dpc = "idle"
    /\ ret.op = "drop"
    /\ ret.val # None
    /\ Cardinality(Reclaimed) = 2
    /\ Len(ChainOf(old.heap, old.head)) = 3


\* C19: in every state, also in the middle of the destructor of another
\* handle, the cursor of an iterator whose source handle is live is none or a
\* node that is still inside its Rc and lies on the chain of that handle.
C19_CursorValid ==
    \A i \in IterId : (iter[i].live /\ live[iter[i].src]) =>
        \/ iter[i].next = None
        \/ /\ iter[i].next \in Node
           /\ heap[iter[i].next].st = "rc"
           /\ heap[iter[i].next].strong >= 1
           /\ iter[i].next \in SeqSet(ChainOf(heap, head[iter[i].src]))

\* C19 witness: the destructor of a sharing handle has ended with a failed
\* reclaim at the very node a live iterator's cursor refers to
C19_Witness ==
    /\ dpc = "idle"
    /\ ret.op = "drop"
    /\ ret.val # None
    /\ Reclaimed # {}
    /\ \E i \in IterId :
        /\ iter[i].live
        /\ live[iter[i].src]
        /\ iter[i].next = ret.val


\* the while-let loop of List::drop run to its end from the link l
RECURSIVE DropLoop(_, _, _)
DropLoop(hp, l, fuel) ==
    IF l = None \/ fuel = 0 THEN hp
    ELSE IF CanUnwrap(hp, l)
    THEN LET moved == [hp EXCEPT ![l].st = "owned", ![l].strong = @ - 1]
             taken == [moved EXCEPT ![l].next = TakeLeft(@)]
         IN  DropLoop(DropNodeValue(taken, l).heap, moved[l].next, fuel - 1)
    ELSE ReleaseLink(hp, l, MaxNodes).heap

\* the heap after a whole List::drop of a handle whose head is l
ListDropHeap(hp, l) ==
    ReleaseLink(DropLoop(hp, l, MaxNodes + 1), TakeLeft(l), MaxNodes).heap

\* the heap after the handles of the sequence s are dropped one after another
RECURSIVE DropSeq(_, _)
DropSeq(hp, s) ==
    IF s = <<>> THEN hp ELSE DropSeq(ListDropHeap(hp, head[Head(s)]), Tail(s))

\* the orders in which the handles of the set D can be dropped
Orders(D) ==
    {s \in [1..Cardinality(D) -> D] : \A i, j \in 1..Cardinality(D) : s[i] = s[j] => i = j}

\* the handles the borrow checker lets the client drop
Droppable == {h \in LiveHandles : \A i \in IterId : iter[i].live => iter[i].src # h}

\* C20: the heap a destructor run statement by statement ends in is the one
\* ListDropHeap computes, and from every state between calls, dropping any set
\* D of handles gives the same heap in every order: the surviving handles read
\* the same elements as before, the allocated nodes are those on the chains of
\* the survivors, and each count is the number of surviving owners.
C20_DropOrderIrrelevant ==
    /\ (dpc = "idle" /\ ret.op = "drop") => heap = ListDropHeap(old.heap, old.head)
    /\ Idle =>
        \A D \in SUBSET Droppable :
            LET first == CHOOSE t \in Orders(D) : TRUE
                end == DropSeq(heap, first)
                rest == LiveHandles \ D
            IN
            /\ \A s \in Orders(D) : DropSeq(heap, s) = end
            /\ \A h \in rest : Elems(end, head[h]) = Elems(heap, head[h])
            /\ Allocated(end) = UNION {SeqSet(ChainOf(heap, head[h])) : h \in rest}
            /\ \A n \in Allocated(end) :
                end[n].strong = Cardinality({h \in rest : head[h] = n})
                                + Cardinality({m \in Allocated(end) : end[m].next = n})
            /\ \A n \in Node \ Allocated(end) : end[n] = FreeNode

\* C20 witness: a destructor has ended with a failed reclaim and two more
\* handles that can be dropped in either order still share a node
C20_Witness ==
    /\ dpc = "idle"
    /\ ret.op = "drop"
    /\ ret.val # None
    /\ \E a, b \in Droppable :
        /\ a # b
        /\ head[a] # head[b]
        /\ head[a] # None
        /\ head[a] \in SeqSet(ChainOf(heap, head[b]))
        /\ heap[head[a]].strong = 2

====
